---- MODULE Spec2Model ----
(***************************************************************************)
(* VisionCare backend: the Flask request handlers of backend/app.py over   *)
(* the three MongoDB collections and the upload folder, and the model      *)
(* loading / inference functions of backend/ai_service.py.                 *)
(*                                                                         *)
(* Spec        requests handled one after the other (one action = one      *)
(*             whole handler).                                             *)
(* SpecHistory the upload / history scenario on a database that already    *)
(*             holds patients, with more uploads than the history limit.   *)
(* SpecConc    two request threads running add_patient and upload_image;   *)
(*             a handler is split at its database and file-system calls,   *)
(*             which interleave.                                           *)
(* SpecUploads two request threads running upload_image on the database of *)
(*             the upload / history scenario.                              *)
(* SpecAI      ai_service: module import, load_model, run_inference.       *)
(***************************************************************************)
EXTENDS Integers, Sequences, FiniteSets, TLC

VARIABLES
    patients,       \* patients_collection: sequence of documents, in insertion order
    appointments,   \* appointments_collection
    images,         \* images_collection
    files,          \* names of the files present in UPLOAD_FOLDER
    now,            \* the wall clock: the latest datetime.now() value a document keeps;
                    \* every later read returns a later time
    uuids,          \* number of uuid4 tokens drawn so far
    resp,           \* the last HTTP response sent (with the request that caused it)
    pc,             \* SpecConc: per thread, the place of the handler it executes
    loc,            \* SpecConc: per thread, the handler's local variables
    model,          \* ai_service.model: "None", "Loaded" or "False"
    imported,       \* ai_service has been imported (its last line has run)
    loadAttempts,   \* number of tf.keras.models.load_model calls made
    inferences      \* the run_inference calls made: input and returned value of each

dbvars == <<patients, appointments, images, files, now, uuids>>
thvars == <<pc, loc>>
aivars == <<model, imported, loadAttempts, inferences>>
vars == <<patients, appointments, images, files, now, uuids, resp, pc, loc,
          model, imported, loadAttempts, inferences>>

(***************************************************************************)
(* Bounds of the model.                                                    *)
(***************************************************************************)
MaxPatients == 2
MaxAppointments == 1
MaxImages == 1
MaxHistoryImages == 11
MaxConcImages == 2
MaxLoadAttempts == 3
MaxInferences == 2

Threads == {"t1", "t2"}

\* a thread that executes no handler has no locals
Idle == [op |-> "none"]

(***************************************************************************)
(* Strings the code transforms are sequences of characters, so that        *)
(* str.upper() is computed and not assumed.                                *)
(***************************************************************************)
UpperChar(c) ==
    CASE c = "n" -> "N"
      [] c = "a" -> "A"
      [] OTHER -> c

Upper(s) == [i \in DOMAIN s |-> UpperChar(s[i])]

\* Identifiers a request may carry; <<>> is the empty string.
IdInputs == { <<>>, <<"n", "1">>, <<"N", "1">>, <<"n", "2">> }

\* A JSON field that is absent or falsy is "": `field in data and data[field]`.
Present(v) == v # ""

\* dateutil.parser.parse(s).isoformat() on the strings the requests carry;
\* "ValueError" stands for the exception.
ParseDate(s) ==
    CASE s = "2024-09-17" -> "2024-09-17T00:00:00"
      [] s = "2024-09-17 09:00" -> "2024-09-17T09:00:00"
      [] OTHER -> "ValueError"

\* float(data.get('weight', 0)) if data.get('weight') else None, in tenths;
\* "None" for an absent weight, "ValueError" for the exception.
ParseWeight(s) ==
    CASE s = "" -> "None"
      [] s = "1.5" -> "15"
      [] OTHER -> "ValueError"

\* os.path.splitext(name)[1]
SplitExt(name) ==
    CASE name = "scan.jpg" -> ".jpg"
      [] name = "scan.tar.gz" -> ".gz"
      [] OTHER -> ""

NoPatient == [found |-> FALSE]

\* collection.insert_one(doc): the document gets a fresh _id and is stored last
insert_one(coll, doc) == Append(coll, ("_id" :> Len(coll) + 1) @@ doc)

(***************************************************************************)
(* patients_collection.find_one({"neonate_id": key}): the first document   *)
(* whose neonate_id is exactly key.                                        *)
(***************************************************************************)
find_one(ps, key) ==
    LET hits == {i \in DOMAIN ps : ps[i].neonate_id = key}
    IN  IF hits = {} THEN NoPatient
        ELSE LET i == CHOOSE j \in hits : \A k \in hits : j <= k
             IN  [found |-> TRUE, doc |-> ps[i]]

get_patient_details_any(ps, neonate_id) ==
    IF ps = <<>> THEN NoPatient
    ELSE [found |-> TRUE, patientName |-> ps[1].name, patientId |-> ps[1].neonate_id]

get_patient_details(ps, neonate_id) ==
    LET patient == find_one(ps, Upper(neonate_id))
    IN  IF patient.found
        THEN [found |-> TRUE, patientName |-> patient.doc.name,
              patientId |-> patient.doc.neonate_id]
        ELSE NoPatient

(***************************************************************************)
(* add_patient                                                             *)
(***************************************************************************)
\* The request bodies tried: every field drawn from its values, at most one of
\* them missing or malformed.
Defects(flags) == Cardinality({i \in DOMAIN flags : flags[i]})

PatientRequests ==
    {data \in [name : {"", "Baby Doe"}, neonate_id : IdInputs,
               birth_date : {"", "2024-09-17", "garbage"}, weight : {"", "1.5", "abc"},
               parent_name : {"", "John Doe"}] :
        Defects(<<data.name = "", data.neonate_id = <<>>, data.birth_date # "2024-09-17",
                  data.weight = "abc", data.parent_name = "">>) <= 1}

add_patient_has_required(data) ==
    /\ Present(data.name)
    /\ data.neonate_id # <<>>
    /\ Present(data.birth_date)
    /\ Present(data.parent_name)

add_patient_exists_exact(ps, data) == find_one(ps, data.neonate_id).found

add_patient_exists(ps, data) == find_one(ps, Upper(data.neonate_id)).found

add_patient_build_ok(data) ==
    /\ ParseDate(data.birth_date) # "ValueError"
    /\ ParseWeight(data.weight) # "ValueError"

\* The status code add_patient answers with, on collection ps.
add_patient_code(ps, data) ==
    IF ~add_patient_has_required(data) THEN 400
    ELSE IF add_patient_exists(ps, data) THEN 409
    ELSE IF ~add_patient_build_ok(data) THEN 400
    ELSE 201

new_patient(data, t) ==
    [neonate_id |-> Upper(data.neonate_id),
     name |-> data.name,
     birth_date |-> ParseDate(data.birth_date),
     status |-> "Active",
     created_at |-> t]

AddPatient ==
    \E data \in PatientRequests :
        LET code == add_patient_code(patients, data)
        IN  /\ code = 201 => Len(patients) < MaxPatients
            /\ IF code = 201
               THEN /\ now' = now + 1
                    /\ patients' = insert_one(patients, new_patient(data, now + 1))
                    /\ resp' = [op |-> "add_patient", req |-> data, code |-> code,
                                id |-> Len(patients) + 1]
               ELSE /\ UNCHANGED <<now, patients>>
                    /\ resp' = [op |-> "add_patient", req |-> data, code |-> code,
                                id |-> 0]
            /\ UNCHANGED <<appointments, images, files, uuids>>
            /\ UNCHANGED thvars
            /\ UNCHANGED aivars

(***************************************************************************)
(* Sorting: cursor.sort(key, -1); equal keys keep their natural order.     *)
(***************************************************************************)
RECURSIVE InsertDesc(_, _)
InsertDesc(r, s) ==
    IF s = <<>> THEN <<r>>
    ELSE IF r.k > Head(s).k THEN <<r>> \o s
    ELSE <<Head(s)>> \o InsertDesc(r, Tail(s))

RECURSIVE SortKeyedDesc(_)
SortKeyedDesc(s) ==
    IF s = <<>> THEN <<>>
    ELSE InsertDesc(s[Len(s)], SortKeyedDesc(SubSeq(s, 1, Len(s) - 1)))

\* documents paired with their sort key, and back
KeyedBy(s, field) == [i \in DOMAIN s |-> [k |-> s[i][field], d |-> s[i]]]
Unkeyed(s) == [i \in DOMAIN s |-> s[i].d]

\* cursor.sort(field, -1)
SortDesc(s, field) == Unkeyed(SortKeyedDesc(KeyedBy(s, field)))

Limit(s, n) == IF Len(s) <= n THEN s ELSE SubSeq(s, 1, n)

get_all_patients(ps) == SortDesc(ps, "created_at")

GetAllPatients ==
    /\ resp' = [op |-> "get_all_patients", code |-> 200, list |-> get_all_patients(patients)]
    /\ UNCHANGED dbvars
    /\ UNCHANGED thvars
    /\ UNCHANGED aivars

(***************************************************************************)
(* schedule_appointment                                                    *)
(***************************************************************************)
AppointmentRequests ==
    {data \in [patientId : IdInputs, datetime : {"", "2024-09-17 09:00", "garbage"},
               type : {"", "Initial Screening"}] :
        Defects(<<data.patientId = <<>>, data.datetime # "2024-09-17 09:00",
                  data.type = "">>) <= 1}

schedule_appointment_has_required(data) ==
    /\ data.patientId # <<>>
    /\ Present(data.datetime)
    /\ Present(data.type)

\* The status code schedule_appointment answers with, on patients ps.
schedule_appointment_code(ps, data) ==
    IF ~schedule_appointment_has_required(data) THEN 400
    ELSE IF ~get_patient_details(ps, data.patientId).found THEN 404
    ELSE IF ParseDate(data.datetime) = "ValueError" THEN 400
    ELSE 201

new_appointment(patient_details, data, t) ==
    [patientId |-> patient_details.patientId,
     patientName |-> patient_details.patientName,
     datetime |-> ParseDate(data.datetime),
     type |-> data.type,
     status |-> "Scheduled",
     created_at |-> t]

ScheduleAppointment ==
    \E data \in AppointmentRequests :
        LET code == schedule_appointment_code(patients, data)
        IN  /\ code = 201 => Len(appointments) < MaxAppointments
            /\ IF code = 201
               THEN /\ now' = now + 1
                    /\ appointments' =
                         insert_one(appointments,
                                    new_appointment(
                                        get_patient_details(patients, data.patientId),
                                        data, now + 1))
                    /\ resp' = [op |-> "schedule_appointment", req |-> data,
                                code |-> code, id |-> Len(appointments) + 1]
               ELSE /\ UNCHANGED <<now, appointments>>
                    /\ resp' = [op |-> "schedule_appointment", req |-> data,
                                code |-> code, id |-> 0]
            /\ UNCHANGED <<patients, images, files, uuids>>
            /\ UNCHANGED thvars
            /\ UNCHANGED aivars

(***************************************************************************)
(* upload_image                                                            *)
(***************************************************************************)
\* request.files has 'file', request.form has 'patientId', file.filename, the id
UploadRequests ==
    {form \in [hasFile : BOOLEAN, hasPatientId : BOOLEAN, filename : {"", "scan.jpg"},
               patientId : IdInputs] :
        Defects(<<~form.hasFile, ~form.hasPatientId, form.filename = "">>) <= 1}

\* The status code of a rejected upload; 0 when the upload goes on.
upload_image_reject(ps, form) ==
    IF ~form.hasFile THEN 400
    ELSE IF ~form.hasPatientId THEN 400
    ELSE IF form.filename = "" THEN 400
    ELSE IF ~get_patient_details(ps, Upper(form.patientId)).found THEN 404
    ELSE 0

\* f"{patient_id}_{uuid.uuid4().hex}{extension}"; token is the uuid drawn
upload_filename(form, token) ==
    [pid |-> Upper(form.patientId), token |-> token, ext |-> SplitExt(form.filename)]

new_image_record_processing(patient_id, patient_details, filename, t) ==
    [patientId |-> patient_id,
     patientName |-> patient_details.patientName,
     filename |-> filename,
     upload_time |-> t,
     status |-> "Processing",
     ai_result |-> [status |-> "Processing", prediction |-> "Unknown", probability |-> 0]]

new_image_record(patient_id, patient_details, filename, t) ==
    [patientId |-> patient_id,
     patientName |-> patient_details.patientName,
     filename |-> filename,
     upload_time |-> t,
     status |-> "Uploaded",
     ai_result |-> [status |-> "Processing", prediction |-> "Unknown", probability |-> 0]]

\* the $set of the mock processing; probability in hundredths
mock_processed(rec) ==
    [rec EXCEPT !.status = "Processed",
                !.ai_result = [status |-> "Pending Review",
                               prediction |-> "Low-Risk ROP Stage 1",
                               probability |-> 95]]

\* images_collection.update_one({"_id": id}, {"$set": ...})
update_one(imgs, id) ==
    [i \in DOMAIN imgs |-> IF imgs[i]._id = id THEN mock_processed(imgs[i]) ELSE imgs[i]]

\* file.save(filepath)
file_save_lost(fs, filename) == fs

file_save(fs, filename) == fs \cup {filename}

UploadImage(maxImages) ==
    \E form \in UploadRequests :
        LET code == upload_image_reject(patients, form)
            filename == upload_filename(form, uuids + 1)
            patient_id == Upper(form.patientId)
            rec == new_image_record(patient_id, get_patient_details(patients, patient_id),
                                    filename, now + 1)
        IN  IF code # 0
            THEN /\ resp' = [op |-> "upload_image", code |-> code, imageId |-> 0,
                             aiResult |-> [status |-> ""]]
                 /\ UNCHANGED dbvars
                 /\ UNCHANGED thvars
                 /\ UNCHANGED aivars
            ELSE /\ Len(images) < maxImages
                 /\ uuids' = uuids + 1
                 /\ files' = file_save(files, filename)
                 /\ now' = now + 1
                 /\ images' = update_one(insert_one(images, rec), Len(images) + 1)
                 /\ resp' = [op |-> "upload_image", code |-> 201,
                             imageId |-> Len(images) + 1,
                             aiResult |-> [status |-> "Processing"]]
                 /\ UNCHANGED <<patients, appointments>>
                 /\ UNCHANGED thvars
                 /\ UNCHANGED aivars

(***************************************************************************)
(* get_upload_history, get_image_file, get_images_for_review               *)
(***************************************************************************)
HistoryLimit == 10

get_upload_history_unsorted(imgs) == Limit(imgs, HistoryLimit)

get_upload_history(imgs) == Limit(SortDesc(imgs, "upload_time"), HistoryLimit)

GetUploadHistory ==
    /\ resp' = [op |-> "get_upload_history", code |-> 200,
                list |-> get_upload_history(images)]
    /\ UNCHANGED dbvars
    /\ UNCHANGED thvars
    /\ UNCHANGED aivars

\* a name no upload generates
NoSuchFile == [pid |-> <<"N", "1">>, token |-> 0, ext |-> ".jpg"]

GetImageFile ==
    \E filename \in {images[i].filename : i \in DOMAIN images} \cup {NoSuchFile} :
        /\ resp' = [op |-> "get_image_file", filename |-> filename,
                    code |-> IF filename \in files THEN 200 ELSE 404]
        /\ UNCHANGED dbvars
        /\ UNCHANGED thvars
        /\ UNCHANGED aivars

ReviewLabels == {"High-Risk ROP Stage 3", "Urgent Referral", "Severe ROP"}

review_query(rec) ==
    /\ rec.ai_result.status = "Pending Review"
    /\ rec.ai_result.prediction \in ReviewLabels
    /\ rec.status # "Reviewed"

\* the placeholder returned when nothing qualifies; its upload_time is the clock
\* read of the request, which no document keeps
mock_review(t) ==
    <<[_id |-> 0, patientId |-> <<"N", "0", "1", "2">>, patientName |-> "Baby Smith",
       upload_time |-> t,
       ai_result |-> [prediction |-> "High-Risk ROP Stage 3", probability |-> 98],
       status |-> "Processed"]>>

get_images_for_review(imgs, t) ==
    LET hits == SelectSeq(imgs, review_query)
    IN  IF Len(hits) = 0 THEN mock_review(t) ELSE SortDesc(hits, "upload_time")

GetImagesForReview ==
    /\ resp' = [op |-> "get_images_for_review", code |-> 200,
                list |-> get_images_for_review(images, now + 1)]
    /\ UNCHANGED dbvars
    /\ UNCHANGED thvars
    /\ UNCHANGED aivars

Init ==
    /\ patients = <<>>
    /\ appointments = <<>>
    /\ images = <<>>
    /\ files = {}
    /\ now = 0
    /\ uuids = 0
    /\ resp = [op |-> "none", code |-> 0]
    /\ pc = [t \in Threads |-> "idle"]
    /\ loc = [t \in Threads |-> Idle]
    /\ model = "None"
    /\ imported = FALSE
    /\ loadAttempts = 0
    /\ inferences = <<>>

Next ==
    \/ AddPatient
    \/ GetAllPatients
    \/ ScheduleAppointment
    \/ UploadImage(MaxImages)
    \/ GetUploadHistory
    \/ GetImageFile
    \/ GetImagesForReview

Spec == Init /\ [][Next]_vars

(***************************************************************************)
(* The upload / history scenario: the database already holds the patients  *)
(* that two add_patient requests (ids N1 and N2) have created.             *)
(***************************************************************************)
SeedRequest(id) ==
    [name |-> "Baby Doe", neonate_id |-> id, birth_date |-> "2024-09-17",
     weight |-> "1.5", parent_name |-> "John Doe"]

SeededPatients ==
    insert_one(insert_one(<<>>, new_patient(SeedRequest(<<"N", "1">>), 1)),
               new_patient(SeedRequest(<<"n", "2">>), 2))

InitHistory ==
    /\ patients = SeededPatients
    /\ appointments = <<>>
    /\ images = <<>>
    /\ files = {}
    /\ now = 2
    /\ uuids = 0
    /\ resp = [op |-> "none", code |-> 0]
    /\ pc = [t \in Threads |-> "idle"]
    /\ loc = [t \in Threads |-> Idle]
    /\ model = "None"
    /\ imported = FALSE
    /\ loadAttempts = 0
    /\ inferences = <<>>

NextHistory ==
    \/ UploadImage(MaxHistoryImages)
    \/ GetUploadHistory

SpecHistory == InitHistory /\ [][NextHistory]_vars

(***************************************************************************)
(* Two request threads.  A handler is cut at its calls on the collections  *)
(* and the upload folder; what a handler computes between two such calls   *)
(* (parsing, the uuid, the clock read) is done with the call before it.    *)
(***************************************************************************)
InFlight(places) == Cardinality({u \in Threads : pc[u] \in places})

\* add_patient up to and including find_one; new_patient is built (clock read)
AddPatientCheck(t) ==
    /\ pc[t] = "idle"
    /\ \E data \in PatientRequests :
         LET code == add_patient_code(patients, data)
         IN  IF code # 201
             THEN /\ resp' = [op |-> "add_patient", code |-> code, id |-> 0]
                  /\ UNCHANGED <<dbvars, pc, loc>>
             ELSE /\ Len(patients) + InFlight({"add_patient_insert"}) < MaxPatients
                  /\ now' = now + 1
                  /\ pc' = [pc EXCEPT ![t] = "add_patient_insert"]
                  /\ loc' = [loc EXCEPT ![t] = [op |-> "add_patient",
                                                 new_patient |-> new_patient(data, now + 1)]]
                  /\ UNCHANGED <<patients, appointments, images, files, uuids, resp>>
    /\ UNCHANGED aivars

\* patients_collection.insert_one(new_patient) and the 201
AddPatientInsert(t) ==
    /\ pc[t] = "add_patient_insert"
    /\ patients' = insert_one(patients, loc[t].new_patient)
    /\ resp' = [op |-> "add_patient", code |-> 201, id |-> Len(patients) + 1]
    /\ pc' = [pc EXCEPT ![t] = "idle"]
    /\ loc' = [loc EXCEPT ![t] = Idle]
    /\ UNCHANGED <<appointments, images, files, now, uuids>>
    /\ UNCHANGED aivars

\* upload_image up to and including get_patient_details; the filename is drawn
UploadCheck(t) ==
    /\ pc[t] = "idle"
    /\ \E form \in UploadRequests :
         LET code == upload_image_reject(patients, form)
             patient_id == Upper(form.patientId)
         IN  IF code # 0
             THEN /\ resp' = [op |-> "upload_image", code |-> code, imageId |-> 0,
                              aiResult |-> [status |-> ""]]
                  /\ UNCHANGED <<dbvars, pc, loc>>
             ELSE /\ Len(images) + InFlight({"upload_save", "upload_insert"})
                       < MaxConcImages
                  /\ uuids' = uuids + 1
                  /\ pc' = [pc EXCEPT ![t] = "upload_save"]
                  /\ loc' = [loc EXCEPT ![t] =
                               [op |-> "upload_image", patient_id |-> patient_id,
                                patient_details |-> get_patient_details(patients, patient_id),
                                filename |-> upload_filename(form, uuids + 1)]]
                  /\ UNCHANGED <<patients, appointments, images, files, now, resp>>
    /\ UNCHANGED aivars

\* file.save(filepath); new_image_record is built (clock read)
UploadSave(t) ==
    /\ pc[t] = "upload_save"
    /\ files' = file_save(files, loc[t].filename)
    /\ now' = now + 1
    /\ pc' = [pc EXCEPT ![t] = "upload_insert"]
    /\ loc' = [loc EXCEPT ![t] =
                 [op |-> "upload_image",
                  new_image_record |-> new_image_record(loc[t].patient_id,
                                                        loc[t].patient_details,
                                                        loc[t].filename, now + 1)]]
    /\ UNCHANGED <<patients, appointments, images, uuids, resp>>
    /\ UNCHANGED aivars

\* images_collection.insert_one(new_image_record)
UploadInsert(t) ==
    /\ pc[t] = "upload_insert"
    /\ images' = insert_one(images, loc[t].new_image_record)
    /\ pc' = [pc EXCEPT ![t] = "upload_update"]
    /\ loc' = [loc EXCEPT ![t] = [op |-> "upload_image", inserted_id |-> Len(images) + 1]]
    /\ UNCHANGED <<patients, appointments, files, now, uuids, resp>>
    /\ UNCHANGED aivars

\* images_collection.update_one(...) and the 201
UploadUpdate(t) ==
    /\ pc[t] = "upload_update"
    /\ images' = update_one(images, loc[t].inserted_id)
    /\ resp' = [op |-> "upload_image", code |-> 201, imageId |-> loc[t].inserted_id,
                aiResult |-> [status |-> "Processing"]]
    /\ pc' = [pc EXCEPT ![t] = "idle"]
    /\ loc' = [loc EXCEPT ![t] = Idle]
    /\ UNCHANGED <<patients, appointments, files, now, uuids>>
    /\ UNCHANGED aivars

NextConc ==
    \E t \in Threads :
        \/ AddPatientCheck(t)
        \/ AddPatientInsert(t)
        \/ UploadCheck(t)
        \/ UploadSave(t)
        \/ UploadInsert(t)
        \/ UploadUpdate(t)

SpecConc == Init /\ [][NextConc]_vars

\* concurrent uploads on the database of the upload / history scenario
NextUploads ==
    \E t \in Threads :
        \/ UploadCheck(t)
        \/ UploadSave(t)
        \/ UploadInsert(t)
        \/ UploadUpdate(t)

SpecUploads == InitHistory /\ [][NextUploads]_vars

(***************************************************************************)
(* ai_service: the module-level model, load_model, preprocess_image and    *)
(* run_inference.  Importing the module runs its last line, load_model().  *)
(***************************************************************************)
\* `if model is None`
load_model_needed_falsy(m) == m # "Loaded"

load_model_needed(m) == m = "None"

\* the value of `model` after load_model(); ok: tf.keras.models.load_model succeeds
load_model(m, ok) ==
    IF load_model_needed(m) THEN (IF ok THEN "Loaded" ELSE "False") ELSE m

\* the image byte streams tried, and those PIL decodes
ImageBytes == {"png_rgb", "png_gray", "jpeg", "truncated", "text", "empty"}
Decodes(image_bytes) == image_bytes \in {"png_rgb", "png_gray", "jpeg"}

\* the try body of preprocess_image without its except clause
preprocess_image_uncaught(image_bytes) ==
    IF Decodes(image_bytes) THEN "array" ELSE "raise"

\* the (1, 224, 224, 3) array, or None when anything in the try body raised
preprocess_image(image_bytes) ==
    IF Decodes(image_bytes) THEN "array" ELSE "None"

\* what model.predict does: raise, or return one row of class scores (in 1e-5)
PredictOutcomes ==
    { [raises |-> TRUE, predictions |-> <<>>],
      [raises |-> FALSE, predictions |-> <<4996, 20000, 70004, 5000>>],
      [raises |-> FALSE, predictions |-> <<40000, 40000, 10000, 10000>>],
      [raises |-> FALSE, predictions |-> <<0, 0, 0, 100000>>],
      [raises |-> FALSE, predictions |-> <<10000, 10000, 10000, 10000, 60000>>] }

\* np.argmax: the first index of the largest score
ArgMax(v) == CHOOSE i \in DOMAIN v : \A j \in DOMAIN v : v[i] > v[j] \/ (v[i] = v[j] /\ i <= j)

\* round(probability, 4): from 1e-5 to 1e-4 units (no score tried ends in 5)
Round4(p) == (p + 5) \div 10

class_labels == <<"Stage 0 (Normal)", "Stage 1", "Stage 2", "Stage 3 (High-Risk)">>

Failed(prediction) ==
    [raised |-> FALSE, prediction |-> prediction, probability |-> 0, status |-> "failed"]

\* an exception leaving run_inference
Raised == [raised |-> TRUE, prediction |-> "", probability |-> 0, status |-> ""]

\* run_inference after its load_model() call left `model` at m
run_inference(m, image_bytes, outcome) ==
    IF m # "Loaded" THEN Failed("Model Error")
    ELSE IF preprocess_image(image_bytes) = "raise" THEN Raised
    ELSE IF preprocess_image(image_bytes) = "None" THEN Failed("Preprocessing Error")
    ELSE IF outcome.raises THEN Failed("Inference Exception")
    ELSE IF ArgMax(outcome.predictions) > Len(class_labels)
         THEN Failed("Inference Exception")
    ELSE [raised |-> FALSE,
          prediction |-> class_labels[ArgMax(outcome.predictions)],
          probability |-> Round4(outcome.predictions[ArgMax(outcome.predictions)]),
          status |-> "processed"]

\* load_model() on the module's global
CallLoadModel(ok) ==
    /\ load_model_needed(model) => loadAttempts < MaxLoadAttempts
    /\ model' = load_model(model, ok)
    /\ loadAttempts' = IF load_model_needed(model) THEN loadAttempts + 1 ELSE loadAttempts

ImportAiService ==
    /\ ~imported
    /\ imported' = TRUE
    /\ \E ok \in BOOLEAN : CallLoadModel(ok)
    /\ UNCHANGED <<inferences, resp>>
    /\ UNCHANGED dbvars
    /\ UNCHANGED thvars

LoadModel ==
    /\ imported
    /\ \E ok \in BOOLEAN : CallLoadModel(ok)
    /\ UNCHANGED <<imported, inferences, resp>>
    /\ UNCHANGED dbvars
    /\ UNCHANGED thvars

RunInference ==
    /\ imported
    /\ Len(inferences) < MaxInferences
    /\ \E ok \in BOOLEAN, image_bytes \in ImageBytes, outcome \in PredictOutcomes :
         /\ CallLoadModel(ok)
         /\ inferences' = Append(inferences,
                                 [input |-> image_bytes,
                                  result |-> run_inference(model', image_bytes, outcome)])
    /\ UNCHANGED <<imported, resp>>
    /\ UNCHANGED dbvars
    /\ UNCHANGED thvars

NextAI ==
    \/ ImportAiService
    \/ LoadModel
    \/ RunInference

SpecAI == Init /\ [][NextAI]_vars

(***************************************************************************)
(* Vocabulary of the properties, stated apart from the handlers' code.     *)
(***************************************************************************)
LowerChar(c) ==
    CASE c = "N" -> "n"
      [] c = "A" -> "a"
      [] OTHER -> c

EqualIgnoringCase(a, b) ==
    /\ Len(a) = Len(b)
    /\ \A i \in 1..Len(a) : LowerChar(a[i]) = LowerChar(b[i])

StoredIgnoringCase(ps, id) ==
    \E i \in DOMAIN ps : EqualIgnoringCase(ps[i].neonate_id, id)

CarriesRequiredPatientFields(data) ==
    data.name # "" /\ data.neonate_id # <<>> /\ data.birth_date # "" /\ data.parent_name # ""

WellFormedPatientValues(data) ==
    data.birth_date \in {"2024-09-17", "2024-09-17 09:00"} /\ data.weight \in {"", "1.5"}

ReturnedByGetAllPatients(ps, id) ==
    \E i \in DOMAIN get_all_patients(ps) :
        EqualIgnoringCase(get_all_patients(ps)[i].neonate_id, id)

CarriesRequiredAppointmentFields(data) ==
    data.patientId # <<>> /\ data.datetime # "" /\ data.type # ""

(***************************************************************************)
(* C1 as stated: every add_patient request that carries all required       *)
(* fields and an id not yet stored returns 201 and the patient is then     *)
(* returned by get_all_patients; every request whose neonate_id equals a   *)
(* stored id ignoring case gets 409 and leaves the collection unchanged.   *)
(***************************************************************************)
C1_AsStated ==
    [][resp'.op = "add_patient" =>
         /\ (CarriesRequiredPatientFields(resp'.req)
               /\ ~StoredIgnoringCase(patients, resp'.req.neonate_id))
            => (resp'.code = 201
                  /\ ReturnedByGetAllPatients(patients', resp'.req.neonate_id))
         /\ StoredIgnoringCase(patients, resp'.req.neonate_id)
            => (resp'.code = 409 /\ patients' = patients)]_vars

(***************************************************************************)
(* C1 amended: an add_patient request that carries all required fields, a  *)
(* birth_date that parses and a weight that is absent or a number, and an  *)
(* id not yet stored returns 201 and the patient is then returned by       *)
(* get_all_patients; a request that carries all required fields and whose  *)
(* neonate_id equals a stored id ignoring case gets 409 and leaves the     *)
(* collection unchanged.                                                   *)
(***************************************************************************)
C1_AddPatient ==
    [][resp'.op = "add_patient" =>
         /\ (CarriesRequiredPatientFields(resp'.req)
               /\ WellFormedPatientValues(resp'.req)
               /\ ~StoredIgnoringCase(patients, resp'.req.neonate_id))
            => (resp'.code = 201
                  /\ ReturnedByGetAllPatients(patients', resp'.req.neonate_id))
         /\ (CarriesRequiredPatientFields(resp'.req)
               /\ StoredIgnoringCase(patients, resp'.req.neonate_id))
            => (resp'.code = 409 /\ patients' = patients)]_vars

\* a repeat of a stored id in another letter case has been answered 409
C1_Witness ==
    /\ resp.op = "add_patient"
    /\ resp.code = 409
    /\ resp.req.neonate_id = <<"n", "1">>
    /\ \E i \in DOMAIN patients : patients[i].neonate_id = <<"N", "1">>
    /\ Len(patients) = 2

(***************************************************************************)
(* C2 as stated: every schedule_appointment request whose patientId        *)
(* matches no stored patient gets 404 and writes no appointment.           *)
(***************************************************************************)
C2_AsStated ==
    [][(resp'.op = "schedule_appointment"
          /\ ~StoredIgnoringCase(patients, resp'.req.patientId))
       => (resp'.code = 404 /\ appointments' = appointments)]_vars

(***************************************************************************)
(* C2 amended: a schedule_appointment request whose patientId matches no   *)
(* stored patient writes no appointment; it gets 404 when it carries all   *)
(* of patientId, datetime and type, and 400 when one of them is missing.   *)
(***************************************************************************)
C2_UnknownPatient ==
    [][(resp'.op = "schedule_appointment"
          /\ ~StoredIgnoringCase(patients, resp'.req.patientId))
       => /\ appointments' = appointments
          /\ resp'.code = IF CarriesRequiredAppointmentFields(resp'.req)
                          THEN 404 ELSE 400]_vars

\* with a patient stored, an appointment for another id has been answered 404
C2_Witness ==
    /\ resp.op = "schedule_appointment"
    /\ resp.code = 404
    /\ patients # <<>>
    /\ ~StoredIgnoringCase(patients, resp.req.patientId)

(***************************************************************************)
(* C3: the patientId of every Appointment and of every ImageRecord is the  *)
(* neonate_id of a stored patient.                                         *)
(***************************************************************************)
C3_ReferencesExist ==
    /\ \A i \in DOMAIN appointments :
          \E j \in DOMAIN patients : patients[j].neonate_id = appointments[i].patientId
    /\ \A i \in DOMAIN images :
          \E j \in DOMAIN patients : patients[j].neonate_id = images[i].patientId

C3_Witness ==
    /\ Len(patients) = 2
    /\ Len(appointments) >= 1
    /\ Len(images) >= 1
    /\ appointments[1].patientId # images[1].patientId

(***************************************************************************)
(* C4: a stored ImageRecord has ai_result.status "Pending Review" only if  *)
(* its ai_result.prediction is one of the high-risk labels.                *)
(***************************************************************************)
C4_RiskRouting ==
    \A i \in DOMAIN images :
        images[i].ai_result.status = "Pending Review"
        => images[i].ai_result.prediction \in ReviewLabels

C9_UniquePatientIds ==
    \A i, j \in DOMAIN patients :
        i # j => ~EqualIgnoringCase(patients[i].neonate_id, patients[j].neonate_id)

(***************************************************************************)
(* C10: in every state, also in the middle of uploads that run together,   *)
(* the filename of every stored ImageRecord names a file of the upload     *)
(* folder; an upload answered 400 or 404 stores no file and no record.     *)
(***************************************************************************)
C10_RecordsHaveFiles ==
    /\ [](\A i \in DOMAIN images : images[i].filename \in files)
    /\ [][(pc' = pc /\ resp'.op = "upload_image" /\ resp'.code \in {400, 404})
          => (files' = files /\ images' = images)]_vars

\* a record stored and not yet updated, while the other upload has saved its
\* file and not yet inserted its record, after an upload was rejected
C10_Witness ==
    /\ \E t, u \in Threads : pc[t] = "upload_update" /\ pc[u] = "upload_insert"
    /\ \E i \in DOMAIN images : images[i].status = "Uploaded"
    /\ Cardinality(files) > Len(images)
    /\ resp.op = "upload_image"
    /\ resp.code = 404

(***************************************************************************)
(* C6 as stated: for a byte stream that does not decode, run_inference     *)
(* returns Preprocessing Error / 0 / failed and never raises, whatever the *)
(* state of the model.                                                     *)
(***************************************************************************)
Undecodable(image_bytes) == image_bytes \in {"truncated", "text", "empty"}

FailedResult(prediction) ==
    [raised |-> FALSE, prediction |-> prediction, probability |-> 0, status |-> "failed"]

C6_AsStated ==
    [][(Len(inferences') > Len(inferences)
          /\ Undecodable(inferences'[Len(inferences')].input))
       => inferences'[Len(inferences')].result = FailedResult("Preprocessing Error")]_vars

(***************************************************************************)
(* C6 amended: for a byte stream that does not decode, run_inference never *)
(* raises; it returns Preprocessing Error / 0 / failed when the model is   *)
(* loaded, and Model Error / 0 / failed when the model failed to load.     *)
(***************************************************************************)
C6_UndecodableInput ==
    [][(Len(inferences') > Len(inferences)
          /\ Undecodable(inferences'[Len(inferences')].input))
       => inferences'[Len(inferences')].result =
             IF model' = "Loaded" THEN FailedResult("Preprocessing Error")
             ELSE FailedResult("Model Error")]_vars

C6_Witness ==
    /\ model = "Loaded"
    /\ \E i \in DOMAIN inferences :
          /\ Undecodable(inferences[i].input)
          /\ inferences[i].result = FailedResult("Preprocessing Error")

(***************************************************************************)
(* C7: the model load is attempted at most once; once load_model has been  *)
(* called the model state is loaded or unavailable and never changes       *)
(* again; every run_inference call made while it is unavailable returns    *)
(* Model Error / 0 / failed.                                               *)
(***************************************************************************)
C7_LoadOnce ==
    /\ [](loadAttempts <= 1 /\ (imported => model \in {"Loaded", "False"}))
    /\ [][(model # "None" => model' = model)
          /\ ((model = "False" /\ Len(inferences') > Len(inferences))
              => inferences'[Len(inferences')].result = FailedResult("Model Error"))]_vars

\* two run_inference calls answered Model Error after the one failed load
C7_Witness ==
    /\ model = "False"
    /\ loadAttempts = 1
    /\ Len(inferences) >= 2
    /\ \A i \in DOMAIN inferences : inferences[i].result = FailedResult("Model Error")
====
